---- MODULE Spec2Model ----
(***************************************************************************)
(* Cryptnox secure channel engine (CryptnoxWallet) over an APDU transport. *)
(*                                                                         *)
(* The wallet is single threaded: one API call (connect, verifyPin,        *)
(* getCardInfo, disconnect) runs at a time.  pc is the position inside the *)
(* running call; pc = "idle" means that no call is running.  A call moves  *)
(* through the functions it invokes one per action, and no other call can  *)
(* start before it has returned.                                           *)
(*                                                                         *)
(* Abstraction of data.  A 16-byte AES block is a value of Block, a        *)
(* 32-byte key a value of 0..NK (0 is the all-zero buffer), and the        *)
(* external primitives (AESLib, SHA512, micro-ecc) are small keyed         *)
(* functions with the algebra of the real ones: the block cipher is a      *)
(* permutation of Block for each key, CBC chains blocks through a group    *)
(* operation, the digest depends on every word of its input and on their   *)
(* order.  A digest half is never the all-zero key (an event of            *)
(* probability 2^-256 for SHA-512).                                        *)
(***************************************************************************)
EXTENDS Integers, Sequences, FiniteSets, TLC

(***************************************************************************)
(* Bounds of the model.                                                    *)
(***************************************************************************)
NB == 2             \* number of abstract 16-byte block values
NK == 2             \* number of non-zero abstract 32-byte key values
MaxRespBlocks == 3  \* most 16-byte blocks in a secure-messaging response
MaxSeedings == 2    \* randomSeed calls counted; more are counted as this many

\* Values of the key agreement, each set standing for all byte strings of
\* its kind: card public keys (0: a key uECC_shared_secret fails on), host
\* private keys, salts, and values the random generator returns.
CardPublicKeys == {0, 1}
PrivateKeys == {1, 2}
Salts == {0, 1}
RandomValues == {0, 1}

Block == 0 .. (NB - 1)
Key == 0 .. NK

(***************************************************************************)
(* Program constants.                                                      *)
(***************************************************************************)
RESPONSE_GETCARDCERTIFICATE_IN_BYTES == 148
RESPONSE_SELECT_IN_BYTES == 26
RESPONSE_OPENSECURECHANNEL_IN_BYTES == 34
REQUEST_MUTUALLYAUTHENTICATE_IN_BYTES == 69
RESPONSE_MUTUALLYAUTHENTICATE_IN_BYTES == 66
RESPONSE_STATUS_WORDS_IN_BYTES == 2
AES_BLOCK_SIZE == 16
INPUT_BUFFER_LIMIT == 129
RANDOM_BYTES == 8
COMMON_PAIRING_DATA == "Cryptnox Basic CommonPairingData"

SW_9000 == <<144, 0>>
SW_63C2 == <<99, 194>>
StatusWords == {SW_9000, SW_63C2}

ZeroBlock == 0
ZeroKey == 0

(***************************************************************************)
(* Primitives of the external libraries (AESLib, SHA512, micro-ecc).       *)
(***************************************************************************)

\* XOR of two blocks: the operation of a group on Block, with its inverse.
BlockXor(a, b) == (a + b) % NB
BlockUnxor(a, b) == (a + (NB - (b % NB))) % NB

\* The AES block cipher under key k: a permutation of Block for every k
\* (the all-zero key included), and its inverse.
AesEncryptBlock(k, x) == (x + k + 1) % NB
AesDecryptBlock(k, y) == (y + (NB - ((k + 1) % NB))) % NB

\* AES-CBC over whole blocks: c[i] = E(k, p[i] xor c[i-1]), c[0] = iv.
RECURSIVE CbcEncryptBlocks(_, _, _)
CbcEncryptBlocks(k, iv, blocks) ==
    IF blocks = <<>> THEN <<>>
    ELSE LET c == AesEncryptBlock(k, BlockXor(Head(blocks), iv))
         IN  <<c>> \o CbcEncryptBlocks(k, c, Tail(blocks))

RECURSIVE CbcDecryptBlocks(_, _, _)
CbcDecryptBlocks(k, iv, blocks) ==
    IF blocks = <<>> THEN <<>>
    ELSE <<BlockUnxor(AesDecryptBlock(k, Head(blocks)), iv)>>
             \o CbcDecryptBlocks(k, Head(blocks), Tail(blocks))

\* Plaintext handed to the cipher: len bytes, made of the whole blocks
\* "full" and of a last partial block "tail" (tail = 0: no partial block).
PlainData(len, full, tail) == [len |-> len, full |-> full, tail |-> tail]

\* paddingMode::Bit (ISO/IEC 9797-1 method 2): 0x80 then zeros up to the
\* next block boundary; a whole padding block when the data is aligned.
\* The padded last block is a distinct block for each partial block.
\* PaddedLength_NoBlockWhenAligned is a padding that adds nothing to
\* aligned data.
PadBit(data) == data.full \o <<(data.tail + 1) % NB>>
PaddedLength_NoBlockWhenAligned(len) ==
    AES_BLOCK_SIZE * ((len + AES_BLOCK_SIZE - 1) \div AES_BLOCK_SIZE)

\* A padding that adds a whole block after the padded block.
PaddedLength_ExtraBlock(len) == AES_BLOCK_SIZE * ((len \div AES_BLOCK_SIZE) + 2)

PaddedLength(len) == AES_BLOCK_SIZE * ((len \div AES_BLOCK_SIZE) + 1)

\* aesLib.encrypt under paddingMode::Bit: ciphertext blocks and byte length.
AesLibEncryptBit(data, k, iv) ==
    [blocks |-> CbcEncryptBlocks(k, iv, PadBit(data)), len |-> PaddedLength(data.len)]

\* aesLib.encrypt under paddingMode::Null over whole blocks.
AesLibEncryptNull(blocks, k, iv) ==
    [blocks |-> CbcEncryptBlocks(k, iv, blocks), len |-> AES_BLOCK_SIZE * Len(blocks)]

\* In AES CBC-MAC the last block is the MAC.
LastBlock(blocks) == blocks[Len(blocks)]

\* SHA-512 of a sequence of 32-byte words: depends on every word and on
\* their order; the digest is two key-sized halves, neither all zero.
RECURSIVE ShaMix(_)
ShaMix(words) ==
    IF words = <<>> THEN 1
    ELSE (ShaMix(SubSeq(words, 1, Len(words) - 1)) * 7 + words[Len(words)] + 1) % 13
Sha512(words) ==
    LET d == ShaMix(words)
    IN  <<1 + (d % NK), 1 + ((d \div NK) % NK)>>

\* micro-ecc: the public key of a private key, and the ECDH shared secret.
\* Public key 0 stands for the keys uECC_shared_secret fails on.
EccPublicKey(priv) == priv + priv
EccSharedSecretOk(peerPub, priv) == peerPub # 0
EccSharedSecret(peerPub, priv) == peerPub * priv

(***************************************************************************)
(* State.                                                                  *)
(***************************************************************************)
VARIABLES
    session,               \* CW_SecureSession of the caller: aesKey, macKey, iv
    pc,                    \* position of the running API call, "idle" if none
    call,                  \* the API call running, or the last one that ran
    ret,                   \* what the last connect returned: "none", "true", "false"
    xchg,                  \* exchanges with driver.sendAPDU made by the call, in order
    sentApdu,              \* the APDU last handed to driver.sendAPDU by the call
    cardCertificate,       \* establishSecureChannel: certificate buffer
    cardEphemeralPubKey,   \* establishSecureChannel: card key without its prefix
    openSecureChannelSalt, \* establishSecureChannel: salt of the card
    clientPrivateKey,      \* establishSecureChannel: host ephemeral private key
    clientPublicKey,       \* establishSecureChannel: host ephemeral public key
    macValue,              \* aes_cbc_encrypt: MAC sent with the command
    response,              \* aes_cbc_encrypt: response buffer and its length
    macCheck,              \* aes_cbc_decrypt: "none", "match", "mismatch"
    decrypted,             \* aes_cbc_decrypt: <<>> or <<block decrypted>>
    macData,               \* aes_cbc_encrypt: MAC input, header block and ciphertext
    sharedSecret,          \* mutuallyAuthenticate: ECDH shared secret buffer
    debugSink,             \* hex dumps the call wrote to the serial driver
    readerResets,          \* driver.resetReader calls made by the call
    cardDetected,          \* connect: what driver.inListPassiveTarget answered
    ivInstalled,           \* history: iv was written by mutuallyAuthenticate on success
    rng,                   \* uECC_RNG: static flag seeded, and what the calls did
    extractCall,           \* a call of extractCardEphemeralKey by the application
    previousIteration      \* history: the call that ended the previous iteration of loop

vars == <<session, pc, call, ret, xchg, sentApdu, cardCertificate, cardEphemeralPubKey,
          openSecureChannelSalt, clientPrivateKey, clientPublicKey, macValue,
          response, macCheck, decrypted, macData, sharedSecret, debugSink,
          readerResets, cardDetected, ivInstalled, rng, extractCall,
          previousIteration>>

establishLocals == <<cardCertificate, cardEphemeralPubKey, openSecureChannelSalt,
                     clientPrivateKey, clientPublicKey, sharedSecret>>
secureLocals == <<macValue, response, macCheck, decrypted, macData>>

\* CW_SecureSession() and CW_SecureSession::clear(): all fields zero.
ClearedSession == [aesKey |-> ZeroKey, macKey |-> ZeroKey, iv |-> ZeroBlock]

\* A buffer that has not been written (indeterminate content).
Unset == 0 - 1
NoCertificate == [len |-> 0, fmt |-> Unset, marker |-> Unset, pub |-> Unset, sig |-> Unset]
NoResponse == [ok |-> FALSE, len |-> 0, sw |-> <<0, 0>>, blocks |-> <<>>]

\* isSecureChannelOpen: some byte of aesKey is not zero.
isSecureChannelOpen(s) == s.aesKey # ZeroKey

\* A checkStatusWord that compares without looking at the length.
checkStatusWord_NoLengthCheck(r, sw1Expected, sw2Expected) ==
    /\ r.sw[1] = sw1Expected
    /\ r.sw[2] = sw2Expected

\* checkStatusWord: at least two bytes, the last two being sw1, sw2.
checkStatusWord(r, sw1Expected, sw2Expected) ==
    /\ r.len >= 2
    /\ r.sw[1] = sw1Expected
    /\ r.sw[2] = sw2Expected

(***************************************************************************)
(* The transport: what driver.sendAPDU can answer.  A response holds at    *)
(* most the capacity of the buffer the caller passed.  For a response of   *)
(* fewer than two bytes, sw is what a read of the two bytes before its end *)
(* would find: bytes that are not part of the response.                    *)
(***************************************************************************)
TransportFailure == [ok |-> FALSE, len |-> 0, sw |-> <<0, 0>>, body |-> <<>>]

HandshakeResponses(expectedLen, bodies) ==
    {TransportFailure}
        \cup {[ok |-> TRUE, len |-> 0, sw |-> s, body |-> <<>>] : s \in StatusWords}
        \cup {[ok |-> TRUE, len |-> l, sw |-> s, body |-> b] :
                l \in {RESPONSE_STATUS_WORDS_IN_BYTES, expectedLen},
                s \in StatusWords, b \in bodies}

Apdu(hdr, lc, data, len) == [hdr |-> hdr, lc |-> lc, data |-> data, len |-> len]

NoApdu == Apdu(<<>>, 0, <<>>, 0)

\* The leading bytes of a response that the engine keeps: the salt of OPEN
\* SECURE CHANNEL, the MAC of MUTUALLY AUTHENTICATE and of a secured response.
ResponseData(cmd, r) ==
    CASE cmd = "OPEN SECURE CHANNEL" /\ r.len = RESPONSE_OPENSECURECHANNEL_IN_BYTES
            -> r.body.salt
      [] cmd = "MUTUALLY AUTHENTICATE" /\ r.len = RESPONSE_MUTUALLYAUTHENTICATE_IN_BYTES
            -> r.body.mac
      [] cmd = "SECURE" /\ r.len >= AES_BLOCK_SIZE + RESPONSE_STATUS_WORDS_IN_BYTES
            -> r.blocks[1]
      [] OTHER -> Unset

\* One exchange: the command sent and how the transport answered.
Exchange(cmd, r) ==
    [cmd |-> cmd, ok |-> r.ok, len |-> r.len, sw |-> r.sw, data |-> ResponseData(cmd, r)]

\* An entry of the debug sink: the label of a hex dump and what was dumped.
Dump(what, value) == [what |-> what, value |-> value]

\* PN532Adapter::sendAPDU dumps every response it received.
ResponseDump(cmd, r) == IF r.ok THEN {Dump("APDU response", Exchange(cmd, r))} ELSE {}

\* The dumps that would show the keys of a session.
KeyDump(s) == {Dump("aesKey", s.aesKey), Dump("macKey", s.macKey)}

\* A printApdu that dumps the keys of the session along with the APDU.
ApduDump_WithKeys(apdu) == {Dump("APDU to send", apdu.hdr)} \cup KeyDump(session)

\* printApdu dumps a handshake APDU; the model keeps its header.
ApduDump(apdu) == {Dump("APDU to send", apdu.hdr)}

(***************************************************************************)
(* uECC_RNG.  The flag seeded is static: it lives as long as the process.  *)
(* The other fields are history: the randomSeed calls made, whether a byte *)
(* was produced, and whether one was drawn before any randomSeed.          *)
(***************************************************************************)
UnseededRng == [seeded |-> FALSE, seedings |-> 0, produced |-> FALSE,
                unseededBytes |-> FALSE]

\* A uECC_RNG that seeds the generator on every call that produces bytes.
uECC_RNG_Calls_SeedsEveryCall(g, destGiven, size) ==
    IF destGiven /\ size > 0
    THEN <<"randomSeed">> \o [i \in 1 .. size |-> "random"]
    ELSE <<>>

\* The Arduino calls one uECC_RNG(dest, size) makes, in order.
uECC_RNG_Calls(g, destGiven, size) ==
    IF destGiven /\ size > 0
    THEN (IF g.seeded THEN <<>> ELSE <<"randomSeed">>)
            \o [i \in 1 .. size |-> "random"]
    ELSE <<>>

\* uECC_RNG(dest, size): its return value and the generator afterwards.
uECC_RNG(g, destGiven, size) ==
    LET calls == uECC_RNG_Calls(g, destGiven, size)
        seeds == Cardinality({i \in DOMAIN calls : calls[i] = "randomSeed"})
        draws == {i \in DOMAIN calls : calls[i] = "random"}
        total == g.seedings + seeds
    IN  [ret |-> IF destGiven /\ size > 0 THEN 1 ELSE 0,
         bytes |-> Cardinality(draws),
         rng |-> [seeded |-> g.seeded \/ (destGiven /\ size > 0),
                  seedings |-> IF total > MaxSeedings THEN MaxSeedings ELSE total,
                  produced |-> g.produced \/ draws # {},
                  unseededBytes |->
                      \/ g.unseededBytes
                      \/ \E i \in draws :
                            /\ g.seedings = 0
                            /\ \A j \in 1 .. i - 1 : calls[j] # "randomSeed"]]

\* No call of extractCardEphemeralKey by the application.
NoExtractCall ==
    [variant |-> "none", certGiven |-> FALSE, cert |-> NoCertificate,
     outGiven |-> FALSE, fullGiven |-> FALSE,
     out |-> Unset, full |-> [marker |-> Unset, pub |-> Unset], ret |-> "none"]

Init ==
    /\ session = ClearedSession
    /\ pc = "idle"
    /\ call = "none"
    /\ ret = "none"
    /\ xchg = <<>>
    /\ sentApdu = NoApdu
    /\ cardCertificate = NoCertificate
    /\ cardEphemeralPubKey = Unset
    /\ openSecureChannelSalt = Unset
    /\ clientPrivateKey = Unset
    /\ clientPublicKey = Unset
    /\ macValue = Unset
    /\ response = NoResponse
    /\ macCheck = "none"
    /\ decrypted = <<>>
    /\ macData = <<>>
    /\ sharedSecret = Unset
    /\ debugSink = {}
    /\ readerResets = 0
    /\ cardDetected = "none"
    /\ ivInstalled = FALSE
    /\ rng = UnseededRng
    /\ extractCall = NoExtractCall
    /\ previousIteration = "none"

\* A new API call starts.  The frames of the calls that returned are dead:
\* their buffers are indeterminate again.
EnterCall(name) ==
    /\ pc = "idle"
    /\ call' = name

\* establishSecureChannel returns: the buffers of public values are gone.
PopEstablishFrame ==
    /\ cardCertificate' = NoCertificate
    /\ cardEphemeralPubKey' = Unset
    /\ openSecureChannelSalt' = Unset
    /\ clientPublicKey' = Unset

FreshEstablishLocals ==
    /\ PopEstablishFrame
    /\ clientPrivateKey' = Unset
    /\ sharedSecret' = Unset

FreshSecureLocals ==
    /\ macValue' = Unset
    /\ response' = NoResponse
    /\ macCheck' = "none"
    /\ decrypted' = <<>>
    /\ macData' = <<>>

(***************************************************************************)
(* connect and establishSecureChannel.                                     *)
(***************************************************************************)

\* A connect that establishes the channel whatever the detection answered.
Connect_NoDetection ==
    /\ EnterCall("connect")
    /\ \E present \in BOOLEAN : cardDetected' = IF present THEN "true" ELSE "false"
    /\ pc' = "selectApdu" /\ ret' = "none"
    /\ xchg' = <<>>
    /\ sentApdu' = NoApdu
    /\ readerResets' = 0
    /\ debugSink' = {}
    /\ FreshEstablishLocals
    /\ FreshSecureLocals
    /\ UNCHANGED <<session, ivInstalled, rng, extractCall, previousIteration>>

\* connect: no card detected returns false, else establishSecureChannel.
Connect ==
    /\ EnterCall("connect")
    /\ \E present \in BOOLEAN :
         /\ cardDetected' = IF present THEN "true" ELSE "false"
         /\ IF present
            THEN pc' = "selectApdu" /\ ret' = "none"
            ELSE pc' = "idle" /\ ret' = "false"
    /\ xchg' = <<>>
    /\ sentApdu' = NoApdu
    /\ readerResets' = 0
    /\ debugSink' = {}
    /\ FreshEstablishLocals
    /\ FreshSecureLocals
    /\ UNCHANGED <<session, ivInstalled, rng, extractCall, previousIteration>>

\* An establishSecureChannel that does not return once a step has failed.
StepReturns_Hangs(ok, next) ==
    IF ok THEN pc' = next /\ ret' = "none"
    ELSE pc' = "hung" /\ ret' = "none"

\* An establishSecureChannel that runs a failed step again.
StepReturns_Retries(ok, next) ==
    IF ok THEN pc' = next /\ ret' = "none"
    ELSE UNCHANGED <<pc, ret>>

\* An establishSecureChannel that went on whatever a step returned.
StepReturns_IgnoresFailure(ok, next) == pc' = next /\ ret' = "none"

\* establishSecureChannel: what follows a step that returned ok.
StepReturns(ok, next) ==
    IF ok THEN pc' = next /\ ret' = "none"
    ELSE pc' = "idle" /\ ret' = "false"

SELECT_APDU == Apdu(<<0, 164, 4, 0>>, 7, <<160, 0, 0, 16, 0, 1, 18>>, 12)

selectApdu ==
    /\ pc = "selectApdu"
    /\ \E r \in HandshakeResponses(RESPONSE_SELECT_IN_BYTES, {<<>>}) :
         /\ xchg' = Append(xchg, Exchange("SELECT", r))
         /\ sentApdu' = SELECT_APDU
         /\ debugSink' = debugSink \cup ApduDump(SELECT_APDU)
                                    \cup ResponseDump("SELECT", r)
         /\ StepReturns(r.ok /\ checkStatusWord(r, 144, 0), "getCardCertificate")
    /\ UNCHANGED <<session, call, establishLocals, secureLocals, readerResets,
                   cardDetected, ivInstalled, rng, extractCall, previousIteration>>

\* The signature bytes 74..145 of a certificate: 1 stands for the signature
\* of the card over the bytes before it, 0 for any other content.
Signatures == {0, 1}

\* Certificate bodies the card can send: 'C' or another format byte, the
\* 0x04 point marker or another one, the card ephemeral public key and the
\* signature.
CertificateBodies ==
    {[fmt |-> fm[1], marker |-> fm[2], pub |-> p, sig |-> s] :
        fm \in {<<67, 4>>, <<88, 4>>, <<67, 3>>}, p \in CardPublicKeys,
        s \in Signatures}

\* getCardCertificate: nonce, exchange, status word; the response without
\* its status word is copied to the certificate buffer.  When fewer bytes
\* than a certificate came back the rest of the buffer is indeterminate,
\* which the arbitrary body stands for.
getCardCertificate ==
    /\ pc = "getCardCertificate"
    /\ \E nonce \in RandomValues :
       \E r \in HandshakeResponses(RESPONSE_GETCARDCERTIFICATE_IN_BYTES, CertificateBodies) :
         LET apdu == Apdu(<<128, 248, 0, 0>>, 8, <<nonce>>, 13)
             ok == r.ok /\ checkStatusWord(r, 144, 0)
         IN  /\ xchg' = Append(xchg, Exchange("GET CARD CERTIFICATE", r))
             /\ sentApdu' = apdu
             /\ debugSink' = debugSink \cup ApduDump(apdu)
                                        \cup ResponseDump("GET CARD CERTIFICATE", r)
             /\ cardCertificate' =
                  IF ok
                  THEN [len |-> r.len - RESPONSE_STATUS_WORDS_IN_BYTES,
                        fmt |-> r.body.fmt, marker |-> r.body.marker, pub |-> r.body.pub,
                        sig |-> r.body.sig]
                  ELSE cardCertificate
             /\ StepReturns(ok, "extractCardEphemeralKey")
    /\ rng' = uECC_RNG(rng, TRUE, RANDOM_BYTES).rng
    /\ UNCHANGED <<extractCall, previousIteration>>
    /\ UNCHANGED <<session, call, cardEphemeralPubKey, openSecureChannelSalt,
                   clientPrivateKey, clientPublicKey, sharedSecret, secureLocals,
                   readerResets, cardDetected, ivInstalled>>

\* An extractCardEphemeralKey that accepts only a certificate carrying the
\* signature of the card.
ExtractReturns_VerifiesSignature(cert) == cert.sig = 1

\* extractCardEphemeralKey: copies bytes 10..73 of the certificate and
\* prints them; with non-null buffers it always returns true.
ExtractReturns(cert) == TRUE

extractCardEphemeralKey ==
    /\ pc = "extractCardEphemeralKey"
    /\ cardEphemeralPubKey' = cardCertificate.pub
    /\ debugSink' = debugSink \cup {Dump("Full Ephemeral Public Key", cardCertificate.pub)}
    /\ StepReturns(ExtractReturns(cardCertificate), "openSecureChannel")
    /\ UNCHANGED <<session, call, xchg, sentApdu, cardCertificate, openSecureChannelSalt,
                   clientPrivateKey, clientPublicKey, sharedSecret, secureLocals,
                   readerResets, cardDetected, ivInstalled, rng, extractCall,
                   previousIteration>>

\* openSecureChannel: key pair, exchange, status word, 34 bytes, salt.  On
\* failure establishSecureChannel returns: nothing overwrites the private
\* key that uECC_make_key wrote.
OpcLengthOk(r) == r.len = RESPONSE_OPENSECURECHANNEL_IN_BYTES

openSecureChannel ==
    /\ pc = "openSecureChannel"
    /\ \E eccSuccess \in BOOLEAN :
         IF ~eccSuccess
         THEN /\ StepReturns(FALSE, "mutuallyAuthenticate")
              /\ FreshEstablishLocals
              /\ UNCHANGED <<xchg, sentApdu, debugSink>>
         ELSE \E priv \in PrivateKeys :
              \E r \in HandshakeResponses(RESPONSE_OPENSECURECHANNEL_IN_BYTES,
                                          {[salt |-> x] : x \in Salts}) :
                LET apdu == Apdu(<<128, 16, 0, 0>>, 65, <<4, EccPublicKey(priv)>>, 70)
                    ok == r.ok /\ checkStatusWord(r, 144, 0) /\ OpcLengthOk(r)
                IN  /\ xchg' = Append(xchg, Exchange("OPEN SECURE CHANNEL", r))
                    /\ sentApdu' = apdu
                    /\ debugSink' = debugSink \cup ApduDump(apdu)
                                               \cup ResponseDump("OPEN SECURE CHANNEL", r)
                    /\ StepReturns(ok, "mutuallyAuthenticate")
                    /\ clientPrivateKey' = priv
                    /\ sharedSecret' = Unset
                    /\ IF ok
                       THEN /\ clientPublicKey' = EccPublicKey(priv)
                            /\ openSecureChannelSalt' = r.body.salt
                            /\ UNCHANGED <<cardCertificate, cardEphemeralPubKey>>
                       ELSE PopEstablishFrame
    /\ rng' = uECC_RNG(rng, TRUE, 32).rng
    /\ UNCHANGED <<extractCall, previousIteration>>
    /\ UNCHANGED <<session, call, secureLocals, readerResets, cardDetected, ivInstalled>>

\* The zero padded block that starts a command's MAC input: the header, the
\* length byte and eleven zero bytes.
HeaderBlock(hdr, lc) == (hdr[1] + hdr[2] + hdr[3] + hdr[4] + lc) % NB

\* The MAC of a command: the last block of the CBC encryption, without
\* padding and under the zero IV, of the header block and the ciphertext.
CommandMac(macKey, hdr, lc, cipherBlocks) ==
    LastBlock(AesLibEncryptNull(<<HeaderBlock(hdr, lc)>> \o cipherBlocks, macKey,
                                ZeroBlock).blocks)

\* A length byte that counts the ciphertext without the MAC.
LengthByte_CipherOnly(cipherLength) == cipherLength % 256

\* The length byte of a secured command: a uint8_t.
LengthByte(cipherLength) == (cipherLength + AES_BLOCK_SIZE) % 256

\* iv_opc: sixteen bytes 0x01.
IV_OPC == 1

\* The 32 random bytes of the challenge, as two blocks.
RandomChallenges == {<<x % NB, (x \div NB) % NB>> : x \in RandomValues}

\* Responses to MUTUALLY AUTHENTICATE: sixteen bytes of MAC come first.
MutualAuthBodies == {[mac |-> m] : m \in Block}

\* A mutuallyAuthenticate that accepts a response of any length.
MutualAuthLengthOk_AnyLength(r) == TRUE

MutualAuthLengthOk(r) == r.len = RESPONSE_MUTUALLYAUTHENTICATE_IN_BYTES

\* A derivation that concatenates salt || pairingKey || sharedSecret.
DeriveKeys_SaltFirst(secret, salt) ==
    Sha512(<<salt, Len(COMMON_PAIRING_DATA), secret>>)

\* Session keys: the two halves of SHA-512(sharedSecret || pairingKey || salt).
DeriveKeys(secret, salt) ==
    Sha512(<<secret, Len(COMMON_PAIRING_DATA), salt>>)

\* What a failed uECC_shared_secret can leave in the secret buffer: the
\* zeros it was initialised with, or bytes of the computation.
LeftByFailedEcdh == {ZeroKey, 1}

\* mutuallyAuthenticate: ECDH, key derivation into the session, encrypted
\* random challenge with its MAC, exchange, status word, 66 bytes, iv, and
\* the cleanup of the intermediate buffers, which the path of a failed ECDH
\* does not reach.  establishSecureChannel then returns: nothing overwrites
\* the private key.
mutuallyAuthenticate ==
    /\ pc = "mutuallyAuthenticate"
    /\ IF ~EccSharedSecretOk(cardEphemeralPubKey, clientPrivateKey)
       THEN /\ StepReturns(FALSE, "idle")
            /\ \E left \in LeftByFailedEcdh : sharedSecret' = left
            /\ UNCHANGED <<session, xchg, sentApdu, ivInstalled, debugSink, rng,
                           extractCall, previousIteration>>
       ELSE \E RNG_data \in RandomChallenges :
            \E r \in HandshakeResponses(RESPONSE_MUTUALLYAUTHENTICATE_IN_BYTES,
                                        MutualAuthBodies) :
              LET digest == DeriveKeys(EccSharedSecret(cardEphemeralPubKey,
                                                       clientPrivateKey),
                                       openSecureChannelSalt)
                  aesKey == digest[1]
                  macKey == digest[2]
                  enc == AesLibEncryptBit(PlainData(32, RNG_data, 0), aesKey, IV_OPC)
                  hdr == <<128, 17, 0, 0>>
                  lc == LengthByte(enc.len)
                  mac == CommandMac(macKey, hdr, lc, enc.blocks)
                  apdu == Apdu(hdr, lc, <<mac>> \o enc.blocks,
                               REQUEST_MUTUALLYAUTHENTICATE_IN_BYTES)
                  ok == r.ok /\ checkStatusWord(r, 144, 0) /\ MutualAuthLengthOk(r)
              IN  /\ xchg' = Append(xchg, Exchange("MUTUALLY AUTHENTICATE", r))
                  /\ sentApdu' = apdu
                  /\ debugSink' = debugSink \cup ResponseDump("MUTUALLY AUTHENTICATE", r)
                  /\ sharedSecret' = ZeroKey
                  /\ session' = [aesKey |-> aesKey, macKey |-> macKey,
                                 iv |-> IF ok THEN r.body.mac ELSE session.iv]
                  /\ ivInstalled' = (ok \/ ivInstalled)
                  /\ rng' = uECC_RNG(rng, TRUE, 32).rng
                  /\ UNCHANGED <<extractCall, previousIteration>>
                  /\ IF ok THEN pc' = "idle" /\ ret' = "true"
                     ELSE pc' = "idle" /\ ret' = "false"
    /\ PopEstablishFrame
    /\ UNCHANGED <<call, clientPrivateKey, secureLocals, readerResets, cardDetected>>

\* A disconnect that resets the reader and leaves the session as it is.
disconnect_NoClear ==
    /\ EnterCall("disconnect")
    /\ readerResets' = 1
    /\ cardDetected' = "none"
    /\ xchg' = <<>>
    /\ sentApdu' = NoApdu
    /\ debugSink' = {}
    /\ FreshEstablishLocals
    /\ FreshSecureLocals
    /\ UNCHANGED <<session, ivInstalled, pc, ret, rng, extractCall, previousIteration>>

\* A disconnect that returns early, without clearing, when the channel is
\* not open.
disconnect_SkipsClosed ==
    /\ EnterCall("disconnect")
    /\ session' = IF isSecureChannelOpen(session) THEN ClearedSession ELSE session
    /\ readerResets' = 1
    /\ cardDetected' = "none"
    /\ ivInstalled' = FALSE
    /\ UNCHANGED <<rng, extractCall, previousIteration>>
    /\ xchg' = <<>>
    /\ sentApdu' = NoApdu
    /\ debugSink' = {}
    /\ FreshEstablishLocals
    /\ FreshSecureLocals
    /\ UNCHANGED <<pc, ret>>

\* A disconnect that clears the session and leaves the reader alone.
disconnect_NoReset ==
    /\ EnterCall("disconnect")
    /\ session' = ClearedSession
    /\ readerResets' = 0
    /\ cardDetected' = "none"
    /\ ivInstalled' = FALSE
    /\ UNCHANGED <<rng, extractCall, previousIteration>>
    /\ xchg' = <<>>
    /\ sentApdu' = NoApdu
    /\ debugSink' = {}
    /\ FreshEstablishLocals
    /\ FreshSecureLocals
    /\ UNCHANGED <<pc, ret>>

\* disconnect: session.clear() and driver.resetReader().
disconnect ==
    /\ EnterCall("disconnect")
    /\ session' = ClearedSession
    /\ readerResets' = 1
    /\ cardDetected' = "none"
    /\ ivInstalled' = FALSE
    /\ UNCHANGED <<rng, extractCall, previousIteration>>
    /\ xchg' = <<>>
    /\ sentApdu' = NoApdu
    /\ debugSink' = {}
    /\ FreshEstablishLocals
    /\ FreshSecureLocals
    /\ UNCHANGED <<pc, ret>>

(***************************************************************************)
(* Secure messaging: verifyPin, getCardInfo, aes_cbc_encrypt and           *)
(* aes_cbc_decrypt.                                                        *)
(***************************************************************************)

RECURSIVE BlockSeqs(_)
BlockSeqs(n) ==
    IF n = 0 THEN {<<>>}
    ELSE LET shorter == BlockSeqs(n - 1)
         IN  shorter \cup {Append(b, x) : b \in {q \in shorter : Len(q) = n - 1}, x \in Block}

\* A response of whole blocks followed by the status word.
SecureResponse(blocks, sw) ==
    [ok |-> TRUE, len |-> AES_BLOCK_SIZE * Len(blocks) + RESPONSE_STATUS_WORDS_IN_BYTES,
     sw |-> sw, blocks |-> blocks]

\* Responses to a secured command.  The engine reads the length of a
\* response, its status word and its first two blocks only, so the blocks
\* after the second are drawn with one value.  Of a response that does not
\* end in 90 00 the engine reads the status word only: such a response is
\* drawn with at most the MAC block.
SecureResponses ==
    {NoResponse}
        \cup {[ok |-> TRUE, len |-> 0, sw |-> <<0, 0>>, blocks |-> <<>>]}
        \cup {SecureResponse(b, SW_9000) :
                b \in {q \in BlockSeqs(MaxRespBlocks) :
                         \A i \in 3 .. Len(q) : q[i] = ZeroBlock}}
        \cup {SecureResponse(b, s) :
                b \in BlockSeqs(1), s \in StatusWords \ {SW_9000}}

\* The block made of a status word followed by zero bytes: not all zero.
SwBlock(sw) == 1 + ((sw[1] + sw[2]) % (NB - 1))

\* The i-th 16-byte block of the zero initialised response buffer holding r.
BufferBlock(r, i) ==
    IF i <= Len(r.blocks) THEN r.blocks[i]
    ELSE IF i = Len(r.blocks) + 1 /\ r.len >= 2 THEN SwBlock(r.sw)
    ELSE ZeroBlock

\* The block made of a length byte followed by fifteen zero bytes: the zero
\* block for length 0, and different blocks for lengths one block apart.
LengthBlock(n) == ((n % 256) \div AES_BLOCK_SIZE) % NB

\* An engine that never rolls the iv.
RollIv_Never(s, r) == s

\* An engine that clears the session on every status word but 90 00.
RollIv_ClearsOnStatus(s, r) ==
    IF r.ok /\ checkStatusWord(r, 144, 0) THEN [s EXCEPT !.iv = BufferBlock(r, 1)]
    ELSE ClearedSession

\* A rolling iv taken from every response delivered, whatever its status.
RollIv_OnAnyResponse(s, r) ==
    IF r.ok THEN [s EXCEPT !.iv = BufferBlock(r, 1)] ELSE s

\* Rolling iv: after an exchange answered 90 00 the iv is the first sixteen
\* bytes of the response buffer; otherwise the session is left as it is.
RollIv(s, r) ==
    IF r.ok /\ checkStatusWord(r, 144, 0) THEN [s EXCEPT !.iv = BufferBlock(r, 1)] ELSE s

\* A command encryption that starts from the zero iv whatever the session
\* holds.
aes_cbc_encrypt_ZeroIv(hdr, data) ==
    LET enc == AesLibEncryptBit(data, session.aesKey, ZeroBlock)
        lc == LengthByte(enc.len)
        macInput == <<HeaderBlock(hdr, lc)>> \o enc.blocks
        mac == CommandMac(session.macKey, hdr, lc, enc.blocks)
        apdu == Apdu(hdr, lc, <<mac>> \o enc.blocks, 4 + 1 + AES_BLOCK_SIZE + enc.len)
    IN  /\ macData' = macInput
        /\ macValue' = mac
        /\ macCheck' = "none"
        /\ decrypted' = <<>>
        /\ IF apdu.len > 255
           THEN /\ pc' = "aes_cbc_encrypt_print"
                /\ debugSink' = {Dump("Apdu", apdu)}
                /\ xchg' = <<>>
                /\ sentApdu' = NoApdu
                /\ response' = NoResponse
                /\ UNCHANGED session
           ELSE \E r \in SecureResponses :
                  LET ok == r.ok /\ checkStatusWord(r, 144, 0)
                  IN  /\ xchg' = <<Exchange("SECURE", r)>>
                      /\ sentApdu' = apdu
                      /\ response' = r
                      /\ session' = RollIv(session, r)
                      /\ debugSink' = {Dump("Apdu", apdu)}
                                        \cup ResponseDump("SECURE", r)
                                        \cup (IF ok THEN {Dump("macValue", mac)} ELSE {})
                      /\ pc' = IF ok THEN "aes_cbc_decrypt" ELSE "idle"

\* aes_cbc_encrypt up to the call of aes_cbc_decrypt: encryption under the
\* session iv, MAC, dump of the APDU, exchange, status word, roll of the iv,
\* dump of the MAC.  The dump of the APDU counts its bytes in a uint8_t: over
\* an APDU of more than 255 bytes it never ends (pc "aes_cbc_encrypt_print").
\* None of the buffers is cleared before the function returns.
aes_cbc_encrypt(hdr, data) ==
    LET enc == AesLibEncryptBit(data, session.aesKey, session.iv)
        lc == LengthByte(enc.len)
        macInput == <<HeaderBlock(hdr, lc)>> \o enc.blocks
        mac == CommandMac(session.macKey, hdr, lc, enc.blocks)
        apdu == Apdu(hdr, lc, <<mac>> \o enc.blocks, 4 + 1 + AES_BLOCK_SIZE + enc.len)
    IN  /\ macData' = macInput
        /\ macValue' = mac
        /\ macCheck' = "none"
        /\ decrypted' = <<>>
        /\ IF apdu.len > 255
           THEN /\ pc' = "aes_cbc_encrypt_print"
                /\ debugSink' = {Dump("Apdu", apdu)}
                /\ xchg' = <<>>
                /\ sentApdu' = NoApdu
                /\ response' = NoResponse
                /\ UNCHANGED session
           ELSE \E r \in SecureResponses :
                  LET ok == r.ok /\ checkStatusWord(r, 144, 0)
                  IN  /\ xchg' = <<Exchange("SECURE", r)>>
                      /\ sentApdu' = apdu
                      /\ response' = r
                      /\ session' = RollIv(session, r)
                      /\ debugSink' = {Dump("Apdu", apdu)}
                                        \cup ResponseDump("SECURE", r)
                                        \cup (IF ok THEN {Dump("macValue", mac)} ELSE {})
                      /\ pc' = IF ok THEN "aes_cbc_decrypt" ELSE "idle"

PIN_1234 == PlainData(4, <<>>, 1)
CARD_INFO_DATA == PlainData(1, <<>>, 2)

verifyPin ==
    /\ EnterCall("verifyPin")
    /\ aes_cbc_encrypt(<<128, 32, 0, 0>>, PIN_1234)
    /\ readerResets' = 0
    /\ cardDetected' = "none"
    /\ FreshEstablishLocals
    /\ UNCHANGED <<ret, ivInstalled, rng, extractCall, previousIteration>>

getCardInfo ==
    /\ EnterCall("getCardInfo")
    /\ aes_cbc_encrypt(<<128, 250, 0, 0>>, CARD_INFO_DATA)
    /\ readerResets' = 0
    /\ cardDetected' = "none"
    /\ FreshEstablishLocals
    /\ UNCHANGED <<ret, ivInstalled, rng, extractCall, previousIteration>>

\* aes_cbc_decrypt, the MAC: mac_datar is 32 bytes, the length block and the
\* first block after the received MAC; response_len - 2 bytes of it are
\* encrypted, and what is read past its end is indeterminate (past).
MacInput(r, past) ==
    LET cipherTextLen == r.len - RESPONSE_STATUS_WORDS_IN_BYTES
        mac_datar == <<LengthBlock(cipherTextLen), BufferBlock(r, 2)>>
        n == cipherTextLen \div AES_BLOCK_SIZE
    IN  IF n <= 2 THEN SubSeq(mac_datar, 1, n) ELSE mac_datar \o past

\* The recomputed MAC: the block at macEncryptedLength - 16 of the zero
\* initialised output buffer.
RecomputedMac(macKey, r, past) ==
    LET in == MacInput(r, past)
    IN  IF in = <<>> THEN ZeroBlock
        ELSE LastBlock(AesLibEncryptNull(in, macKey, ZeroBlock).blocks)

\* A comparison that accepts every received MAC.
MacsMatch_Always(rep_mac, recomputed) == TRUE

\* memcmp(rep_mac, recomputedMacValue) == 0
MacsMatch(rep_mac, recomputed) == rep_mac = recomputed

\* How many blocks the MAC computation reads past mac_datar.
PastBlocks(r) ==
    LET n == (r.len - RESPONSE_STATUS_WORDS_IN_BYTES) \div AES_BLOCK_SIZE
    IN  IF n <= 2 THEN 0 ELSE n - 2

\* What the MAC computation can read past mac_datar for response r.
PastReads(r) == {q \in BlockSeqs(MaxRespBlocks) : Len(q) = PastBlocks(r)}

\* aes_cbc_decrypt: the number of bytes of mac_datar handed to the MAC
\* computation, the response without its status word.
CipherTextLen(r) == r.len - RESPONSE_STATUS_WORDS_IN_BYTES

\* aes_cbc_decrypt: the length aesLib.encrypt returns for the MAC input.
MacEncryptedLength(macKey, r, past) ==
    AesLibEncryptNull(MacInput(r, past), macKey, ZeroBlock).len

\* aes_cbc_decrypt: macOffset, macEncryptedLength - AES_BLOCK_SIZE kept in a
\* uint8_t.
MacOffset(macKey, r, past) ==
    (MacEncryptedLength(macKey, r, past) - AES_BLOCK_SIZE) % 256

aes_cbc_decrypt_mac ==
    /\ pc = "aes_cbc_decrypt"
    /\ \E past \in PastReads(response) :
         IF MacsMatch(BufferBlock(response, 1),
                         RecomputedMac(session.macKey, response, past))
         THEN macCheck' = "match" /\ pc' = "aes_cbc_decrypt_payload"
         ELSE macCheck' = "mismatch" /\ pc' = "idle"
    /\ UNCHANGED <<session, call, ret, xchg, sentApdu, establishLocals, macValue,
                   response, decrypted, macData, debugSink, readerResets, cardDetected,
                   ivInstalled, rng, extractCall, previousIteration>>

\* A decryption that takes the rolling iv of the session as iv.
aes_cbc_decrypt_payload_RollingIv ==
    /\ pc = "aes_cbc_decrypt_payload"
    /\ decrypted' = CbcDecryptBlocks(session.aesKey, session.iv, <<BufferBlock(response, 2)>>)
    /\ debugSink' = debugSink \cup {Dump("Decoded data", decrypted')}
    /\ pc' = "idle"
    /\ UNCHANGED <<session, call, ret, xchg, sentApdu, establishLocals, macValue,
                   response, macCheck, macData, readerResets, cardDetected,
                   ivInstalled, rng, extractCall, previousIteration>>

\* aes_cbc_decrypt, the payload: one block, the first after the received
\* MAC, decrypted under the AES key with the MAC that was sent as iv, and
\* dumped.
aes_cbc_decrypt_payload ==
    /\ pc = "aes_cbc_decrypt_payload"
    /\ decrypted' = CbcDecryptBlocks(session.aesKey, macValue, <<BufferBlock(response, 2)>>)
    /\ debugSink' = debugSink \cup {Dump("Decoded data", decrypted')}
    /\ pc' = "idle"
    /\ UNCHANGED <<session, call, ret, xchg, sentApdu, establishLocals, macValue,
                   response, macCheck, macData, readerResets, cardDetected,
                   ivInstalled, rng, extractCall, previousIteration>>

Next ==
    \/ Connect
    \/ selectApdu
    \/ getCardCertificate
    \/ extractCardEphemeralKey
    \/ openSecureChannel
    \/ mutuallyAuthenticate
    \/ disconnect
    \/ verifyPin
    \/ getCardInfo
    \/ aes_cbc_decrypt_mac
    \/ aes_cbc_decrypt_payload

Spec == Init /\ [][Next]_vars

(***************************************************************************)
(* aes_cbc_encrypt is a public member: an application can call it with its *)
(* own data.                                                               *)
(***************************************************************************)
ZeroBlocks(n) == [i \in 1 .. n |-> ZeroBlock]

\* Data an application hands to aes_cbc_encrypt: 100 bytes, and 230 bytes,
\* whose ciphertext of 240 bytes does not fit the length byte with the MAC.
ApplicationData == {PlainData(100, ZeroBlocks(6), 1), PlainData(230, ZeroBlocks(14), 1)}

aes_cbc_encrypt_call ==
    /\ EnterCall("aes_cbc_encrypt")
    /\ \E data \in ApplicationData : aes_cbc_encrypt(<<128, 250, 0, 0>>, data)
    /\ readerResets' = 0
    /\ cardDetected' = "none"
    /\ FreshEstablishLocals
    /\ UNCHANGED <<ret, ivInstalled, rng, extractCall, previousIteration>>

NextDirect ==
    \/ Next
    \/ aes_cbc_encrypt_call

SpecDirect == Init /\ [][NextDirect]_vars

(***************************************************************************)
(* The example driver: loop() constructs a session, connects, and either  *)
(* runs verifyPin, getCardInfo and disconnect, or resets the reader, then  *)
(* waits.  call is the position of loop between the calls it makes.        *)
(***************************************************************************)

\* CW_SecureSession session: the constructor zeroes the new session.
loop_begin ==
    /\ pc = "idle"
    /\ call \in {"none", "delay"}
    /\ call' = "loop"
    /\ session' = ClearedSession
    /\ ivInstalled' = FALSE
    /\ readerResets' = 0
    /\ UNCHANGED <<pc, ret, xchg, sentApdu, establishLocals, secureLocals, debugSink,
                   cardDetected, rng, extractCall, previousIteration>>

loop_connect == call = "loop" /\ Connect

\* if (wallet.connect(session)) { if (wallet.isSecureChannelOpen(session)) {
loop_verifyPin ==
    /\ call = "connect" /\ ret = "true"
    /\ isSecureChannelOpen(session)
    /\ verifyPin

loop_getCardInfo == call = "verifyPin" /\ getCardInfo

\* disconnect follows getCardInfo, or a connect that returned true with a
\* session that is not open.
loop_disconnect ==
    /\ IF call = "connect"
       THEN ret = "true" /\ ~isSecureChannelOpen(session)
       ELSE call = "getCardInfo"
    /\ disconnect

\* wallet.resetReader(): the reader is reset, the session is not touched.
resetReader ==
    /\ EnterCall("resetReader")
    /\ readerResets' = 1
    /\ cardDetected' = "none"
    /\ xchg' = <<>>
    /\ sentApdu' = NoApdu
    /\ debugSink' = {}
    /\ FreshEstablishLocals
    /\ FreshSecureLocals
    /\ UNCHANGED <<session, pc, ret, ivInstalled, rng, extractCall, previousIteration>>

\* } else { wallet.resetReader(); }
loop_resetReader ==
    /\ call = "connect" /\ ret = "false"
    /\ resetReader

\* delay(1000): the iteration ends.
loop_delay ==
    /\ pc = "idle"
    /\ call \in {"disconnect", "resetReader"}
    /\ call' = "delay"
    /\ previousIteration' = call
    /\ UNCHANGED <<session, pc, ret, xchg, sentApdu, establishLocals, secureLocals,
                   debugSink, readerResets, cardDetected, ivInstalled, rng, extractCall>>

NextLoop ==
    \/ loop_begin
    \/ loop_connect
    \/ selectApdu
    \/ getCardCertificate
    \/ extractCardEphemeralKey
    \/ openSecureChannel
    \/ mutuallyAuthenticate
    \/ loop_verifyPin
    \/ loop_getCardInfo
    \/ aes_cbc_decrypt_mac
    \/ aes_cbc_decrypt_payload
    \/ loop_disconnect
    \/ loop_resetReader
    \/ loop_delay

SpecLoop == Init /\ [][NextLoop]_vars

\* The steps of establishSecureChannel.
establishSecureChannel ==
    \/ selectApdu
    \/ getCardCertificate
    \/ extractCardEphemeralKey
    \/ openSecureChannel
    \/ mutuallyAuthenticate

\* The steps establishSecureChannel has yet to take before connect returns,
\* by the step it is at: the steps run in this order, no step is entered
\* twice, and a step that fails returns at once.
StepsLeft(p) ==
    CASE p = "selectApdu" -> 5
      [] p = "getCardCertificate" -> 4
      [] p = "extractCardEphemeralKey" -> 3
      [] p = "openSecureChannel" -> 2
      [] p = "mutuallyAuthenticate" -> 1
      [] p = "idle" -> 0
      [] OTHER -> 6

(***************************************************************************)
(* extractCardEphemeralKey as a public member, called by an application    *)
(* with a certificate, an output buffer of 64 bytes and an optional one of *)
(* 65 bytes, any of the pointers being null or not.  The repository holds  *)
(* two sources of the function: the library and the copy of the examples.  *)
(***************************************************************************)
ExtractVariants == {"library", "examples"}

\* The calls an application can make: buffers not yet written are Unset.
ExtractCalls ==
    {[variant |-> v, certGiven |-> cg, cert |-> c, outGiven |-> og, fullGiven |-> fg,
      out |-> Unset, full |-> [marker |-> Unset, pub |-> Unset], ret |-> "none"] :
        v \in ExtractVariants, cg \in BOOLEAN, og \in BOOLEAN, fg \in BOOLEAN,
        c \in {[len |-> RESPONSE_GETCARDCERTIFICATE_IN_BYTES
                          - RESPONSE_STATUS_WORDS_IN_BYTES,
                 fmt |-> b.fmt, marker |-> b.marker, pub |-> b.pub, sig |-> b.sig] :
                    b \in CertificateBodies}}

\* The value the function returns once its loop has run: the library sets
\* ret = true, the copy of the examples leaves ret as initialised.
ExtractReturnValue(variant) == IF variant = "library" THEN "true" ELSE "false"

\* extractCardEphemeralKey(cardCertificate, cardEphemeralPubKey,
\* fullEphemeralPubKey65): the call a once the function returned.
ExtractCardEphemeralKey(a) ==
    IF ~a.certGiven \/ ~a.outGiven
    THEN [a EXCEPT !.ret = "false"]
    ELSE [a EXCEPT !.out = a.cert.pub,
                   !.full = IF a.fullGiven
                            THEN [marker |-> a.cert.marker, pub |-> a.cert.pub]
                            ELSE @,
                   !.ret = ExtractReturnValue(a.variant)]

InitExtract ==
    /\ session = ClearedSession
    /\ pc = "idle"
    /\ call = "none"
    /\ ret = "none"
    /\ xchg = <<>>
    /\ sentApdu = NoApdu
    /\ cardCertificate = NoCertificate
    /\ cardEphemeralPubKey = Unset
    /\ openSecureChannelSalt = Unset
    /\ clientPrivateKey = Unset
    /\ clientPublicKey = Unset
    /\ macValue = Unset
    /\ response = NoResponse
    /\ macCheck = "none"
    /\ decrypted = <<>>
    /\ macData = <<>>
    /\ sharedSecret = Unset
    /\ debugSink = {}
    /\ readerResets = 0
    /\ cardDetected = "none"
    /\ ivInstalled = FALSE
    /\ rng = UnseededRng
    /\ extractCall \in ExtractCalls
    /\ previousIteration = "none"

extractCardEphemeralKey_call ==
    /\ extractCall.ret = "none"
    /\ extractCall' = ExtractCardEphemeralKey(extractCall)
    /\ debugSink' = IF extractCall.certGiven /\ extractCall.outGiven
                    THEN {Dump("Full Ephemeral Public Key", extractCall.cert.pub)}
                    ELSE {}
    /\ UNCHANGED <<session, pc, call, ret, xchg, sentApdu, establishLocals, secureLocals,
                   readerResets, cardDetected, ivInstalled, rng, previousIteration>>

NextExtract == extractCardEphemeralKey_call

SpecExtract == InitExtract /\ [][NextExtract]_vars

(***************************************************************************)
(* Vocabulary of the properties.                                           *)
(***************************************************************************)
SecureCalls == {"verifyPin", "getCardInfo"}

HandshakeOrder ==
    <<"SELECT", "GET CARD CERTIFICATE", "OPEN SECURE CHANNEL", "MUTUALLY AUTHENTICATE">>

\* The response length each length-checked handshake step expects.
ExpectedLength(cmd) ==
    CASE cmd = "GET CARD CERTIFICATE" -> RESPONSE_GETCARDCERTIFICATE_IN_BYTES
      [] cmd = "OPEN SECURE CHANNEL" -> RESPONSE_OPENSECURECHANNEL_IN_BYTES
      [] cmd = "MUTUALLY AUTHENTICATE" -> RESPONSE_MUTUALLYAUTHENTICATE_IN_BYTES
      [] OTHER -> 0

\* The transport delivered a response that ends in 90 00.
Answered9000(x) == x.ok /\ x.len >= 2 /\ x.sw = SW_9000

\* A handshake exchange succeeded: delivered, 90 00, and of the length the
\* step checks (OPEN SECURE CHANNEL and MUTUALLY AUTHENTICATE check it).
Succeeded(x) ==
    /\ Answered9000(x)
    /\ x.cmd \in {"OPEN SECURE CHANNEL", "MUTUALLY AUTHENTICATE"} => x.len = ExpectedLength(x.cmd)

ConnectReturned == call = "connect" /\ pc = "idle"
SecureReturned == call \in SecureCalls /\ pc = "idle"

\* What the call that returned handed back to its caller: connect returns a
\* bool, verifyPin, getCardInfo and disconnect return void.
Returned == IF call = "connect" THEN ret ELSE "void"

\* The header each secure command sends.
CommandHeader(c) == IF c = "verifyPin" THEN <<128, 32, 0, 0>> ELSE <<128, 250, 0, 0>>

\* The plaintext each secure command sends.
CommandData(c) == IF c = "verifyPin" THEN PIN_1234 ELSE CARD_INFO_DATA

\* The response MAC as the wrapper of the specification builds it, for the
\* ciphertext blocks cprime: the CBC-MAC of byte(|C'|), fifteen zero bytes
\* and C'.
SpecResponseMac(macKey, cprime) ==
    LastBlock(AesLibEncryptNull(<<LengthBlock(AES_BLOCK_SIZE * Len(cprime))>> \o cprime,
                                macKey, ZeroBlock).blocks)

\* The rolling iv under which the command in sentApdu was encrypted, from
\* its first ciphertext block: iv = D(k, c1) xor p1.
IvOfCommand(aesKey, apdu, data) ==
    BlockUnxor(AesDecryptBlock(aesKey, apdu.data[2]), PadBit(data)[1])

\* The response of the running secure command with block i replaced by v.
Tampered(r, i, v) == [r EXCEPT !.blocks[i] = v]

(***************************************************************************)
(* Claims.                                                                 *)
(***************************************************************************)

\* C1: a secure command (verifyPin, getCardInfo) called while the session is
\* not open is rejected: no APDU is handed to the transport and the session
\* fields stay as they were.
C1_ClosedSessionRejected ==
    [][(pc = "idle" /\ ~isSecureChannelOpen(session) /\ call' \in SecureCalls)
          => (xchg' = <<>> /\ session' = session)]_vars

\* C2: when a handshake exchange fails (transport failure, status word other
\* than 90 00, unexpected length), the session is cleared at the moment
\* connect returns failure: keys and iv zero, channel not open.
C2_FailedHandshakeClearsSession ==
    (ConnectReturned /\ ret = "false" /\ xchg # <<>> /\ ~Succeeded(xchg[Len(xchg)]))
        => (session = ClearedSession /\ ~isSecureChannelOpen(session))

\* C3: between calls, isSecureChannelOpen holds exactly when aesKey is not
\* zero, macKey is not zero and the iv has been installed from a successful
\* MUTUALLY AUTHENTICATE response.
C3_OpenIffKeysAndIv ==
    pc = "idle" =>
        (isSecureChannelOpen(session)
            <=> (session.aesKey # ZeroKey /\ session.macKey # ZeroKey /\ ivInstalled))

\* C4: when the MAC of the response to a secure command on an established
\* channel does not verify, the session is cleared when the command returns
\* (keys and iv zero, not open), so that the next command finds it closed.
C4_MacMismatchClearsSession ==
    (SecureReturned /\ ivInstalled /\ macCheck = "mismatch")
        => (session = ClearedSession /\ ~isSecureChannelOpen(session))

\* C5: session.iv never holds the first 16 bytes of a response whose
\* recomputed MAC differs from the received one (on an established channel).
C5_IvOnlyFromVerifiedMac ==
    (SecureReturned /\ ivInstalled /\ macCheck = "mismatch")
        => session.iv # BufferBlock(response, 1)

\* C6: MAC before decrypt.  The payload of a response is decrypted only
\* after the recomputed MAC was found equal to the received one; after a
\* mismatch the decryption is never executed.
C6_MacBeforeDecrypt ==
    /\ (pc = "aes_cbc_decrypt_payload" \/ decrypted # <<>>) =>
          /\ macCheck = "match"
          /\ \E past \in PastReads(response) :
               BufferBlock(response, 1) = RecomputedMac(session.macKey, response, past)
    /\ macCheck = "mismatch" => (decrypted = <<>> /\ pc = "idle")

\* A secure command on an established channel whose response MAC verified
\* and whose payload has been decrypted.
C6_Witness ==
    /\ SecureReturned
    /\ ivInstalled
    /\ macCheck = "match"
    /\ decrypted # <<>>

\* C7: the response MAC covers the whole ciphertext C' (the blocks after
\* the received MAC): once a response has verified, the same response with
\* any one block of C' changed does not verify, memory being the same.
C7_MacCoversWholeCiphertext ==
    (pc = "aes_cbc_decrypt_payload" /\ ivInstalled) =>
        \A i \in 2 .. Len(response.blocks) :
        \A v \in Block \ {response.blocks[i]} :
        \A past \in PastReads(response) :
            MacsMatch(BufferBlock(response, 1),
                      RecomputedMac(session.macKey, response, past))
                => ~MacsMatch(BufferBlock(Tampered(response, i, v), 1),
                              RecomputedMac(session.macKey, Tampered(response, i, v), past))

\* C8: during connect the handshake APDUs go out in the order SELECT, GET
\* CARD CERTIFICATE, OPEN SECURE CHANNEL, MUTUALLY AUTHENTICATE, each one
\* only after the steps before it succeeded; once a step has failed no
\* further APDU is sent and connect has returned failure.
C8_HandshakeInOrder ==
    call = "connect" =>
        /\ Len(xchg) <= Len(HandshakeOrder)
        /\ \A i \in 1 .. Len(xchg) : xchg[i].cmd = HandshakeOrder[i]
        /\ \A i \in 1 .. (Len(xchg) - 1) : Succeeded(xchg[i])
        /\ (xchg # <<>> /\ ~Succeeded(xchg[Len(xchg)])) => (pc = "idle" /\ ret = "false")
        /\ ret = "true" => (Len(xchg) = Len(HandshakeOrder) /\ Succeeded(xchg[Len(xchg)]))

\* A connect that failed at OPEN SECURE CHANNEL after two successful steps.
C8_Witness ==
    /\ ConnectReturned
    /\ ret = "false"
    /\ Len(xchg) = 3
    /\ Succeeded(xchg[1]) /\ Succeeded(xchg[2])
    /\ ~Succeeded(xchg[3])

\* C9: a certificate whose first byte is not 'C' or whose byte 9 is not
\* 0x04 aborts the handshake: no OPEN SECURE CHANNEL or MUTUALLY
\* AUTHENTICATE APDU while establishSecureChannel holds that certificate, and
\* connect does not go on to report success.
C9_InvalidCertificateAborts ==
    (/\ call = "connect"
     /\ pc # "idle"
     /\ Len(xchg) >= 2
     /\ Answered9000(xchg[2])
     /\ xchg[2].len = RESPONSE_GETCARDCERTIFICATE_IN_BYTES
     /\ (cardCertificate.fmt # 67 \/ cardCertificate.marker # 4))
        => (/\ Len(xchg) = 2
            /\ pc = "extractCardEphemeralKey"
            /\ ret # "true")

\* C10: at GET CARD CERTIFICATE, OPEN SECURE CHANNEL and MUTUALLY
\* AUTHENTICATE a response of unexpected length makes connect fail even
\* with status word 90 00, and no later handshake step is performed.
C10_UnexpectedLengthFatal ==
    call = "connect" =>
        \A i \in 2 .. Len(xchg) :
            (Answered9000(xchg[i]) /\ xchg[i].len # ExpectedLength(xchg[i].cmd))
                => (Len(xchg) = i /\ ret # "true")

\* C11: when no card is detected, connect returns failure without handing
\* any APDU to the transport and without modifying the session.
C11_NoCardNoApdu ==
    [][(call' = "connect" /\ cardDetected' = "false")
          => (/\ pc' = "idle"
              /\ ret' = "false"
              /\ xchg' = <<>>
              /\ sentApdu' = NoApdu
              /\ session' = session)]_vars

\* A connect on an open session that found no card.
C11_Witness ==
    /\ ConnectReturned
    /\ cardDetected = "false"
    /\ isSecureChannelOpen(session)
    /\ ivInstalled

\* C12: after disconnect, whatever the session was, aesKey, macKey and iv
\* are all zero, isSecureChannelOpen is false and the reader has been reset.
C12_DisconnectZeroizes ==
    call = "disconnect" =>
        /\ session.aesKey = ZeroKey
        /\ session.macKey = ZeroKey
        /\ session.iv = ZeroBlock
        /\ ~isSecureChannelOpen(session)
        /\ readerResets = 1
        /\ pc = "idle"

\* A disconnect that followed a successful connect.
C12_Witness ==
    /\ call = "disconnect"
    /\ ret = "true"
    /\ session = ClearedSession
    /\ readerResets = 1

\* C13: disconnect is idempotent on the session.  Called on a session that
\* is not open it ends in the all-zero closed state, it surfaces no error
\* (nothing is returned, no exchange is made), and called on the all-zero
\* session (as left by a previous disconnect) it leaves the session as is.
C13_DisconnectIdempotent ==
    [][(call' = "disconnect" /\ ~isSecureChannelOpen(session))
          => (/\ session' = ClearedSession
              /\ ~isSecureChannelOpen(session')
              /\ session = ClearedSession => session' = session
              /\ call = "disconnect" => session' = session
              /\ pc' = "idle"
              /\ ret' = ret
              /\ xchg' = <<>>)]_vars

\* A disconnect on a session that no connect ever opened.
C13_Witness ==
    /\ call = "disconnect"
    /\ ret = "none"
    /\ session = ClearedSession
    /\ ~isSecureChannelOpen(session)
    /\ readerResets = 1

\* C14: after every successful secure-messaging exchange (answered 90 00)
\* session.iv is the first 16 bytes of that response, it stays so until the
\* next secure command, and the next secure command is encrypted under it.
C14_RollingIv ==
    [][/\ (pc = "idle" /\ call' \in SecureCalls /\ Answered9000(xchg'[1]))
            => session'.iv = BufferBlock(response', 1)
       /\ (pc # "idle" /\ call \in SecureCalls) => session' = session
       /\ (pc = "idle" /\ call \in SecureCalls /\ Answered9000(xchg[1])
             /\ call' \in SecureCalls)
            => Tail(sentApdu'.data)
                 = CbcEncryptBlocks(session.aesKey, BufferBlock(response, 1),
                                    PadBit(CommandData(call')))]_vars

\* A secure command on an established channel, answered 90 00 with a MAC
\* that verified, after which the iv is the response MAC.
C14_Witness ==
    /\ SecureReturned
    /\ ivInstalled
    /\ Answered9000(xchg[1])
    /\ macCheck = "match"
    /\ Len(response.blocks) >= 2
    /\ session.iv = response.blocks[1]

\* C15: a secure command answered with a status word other than 90 00 (a
\* wrong PIN, 63 C2) does not clear the session: aesKey and macKey are
\* unchanged and an open session is still open when the command returns.
C15_AppStatusKeepsSession ==
    [][(pc = "idle" /\ call' \in SecureCalls /\ xchg'[1].ok /\ xchg'[1].len >= 2
          /\ xchg'[1].sw # SW_9000)
          => (/\ session'.aesKey = session.aesKey
              /\ session'.macKey = session.macKey
              /\ isSecureChannelOpen(session) => isSecureChannelOpen(session')
              /\ pc' = "idle")]_vars

\* A secure command on an established channel answered 63 C2.
C15_Witness ==
    /\ SecureReturned
    /\ ivInstalled
    /\ xchg[1].ok /\ xchg[1].len >= 2 /\ xchg[1].sw = SW_63C2
    /\ isSecureChannelOpen(session)
    /\ session.macKey # ZeroKey

\* C16: a secure command answered with a MAC-valid response that carries a
\* status word other than 90 00 still rolls the iv: afterwards session.iv is
\* the first 16 bytes of that response.
C16_AppStatusRollsIv ==
    (/\ SecureReturned
     /\ ivInstalled
     /\ response.ok
     /\ Len(response.blocks) >= 1
     /\ response.sw # SW_9000
     /\ response.blocks[1] = SpecResponseMac(session.macKey, Tail(response.blocks)))
        => session.iv = response.blocks[1]

\* C17: wrapper round trip.  When the card builds its response as the
\* wrapper of the specification describes (MAC over byte(|C'|), 15 zero
\* bytes and C'; status 90 00), the command is accepted, the whole of C' is
\* decrypted with the sent MAC as iv, and session.iv is the response MAC.
C17_WrapperRoundTrip ==
    (/\ SecureReturned
     /\ ivInstalled
     /\ response.ok
     /\ Len(response.blocks) >= 2
     /\ response.sw = SW_9000
     /\ response.blocks[1] = SpecResponseMac(session.macKey, Tail(response.blocks)))
        => (/\ macCheck = "match"
            /\ decrypted = CbcDecryptBlocks(session.aesKey, macValue, Tail(response.blocks))
            /\ session.iv = response.blocks[1])

\* C18: the response ciphertext is decrypted with the MAC the host sent in
\* the same command as the AES-CBC iv, never with the rolling iv.
C18_DecryptUnderSentMac ==
    decrypted # <<>> =>
        /\ call \in SecureCalls
        /\ decrypted = CbcDecryptBlocks(session.aesKey, sentApdu.data[1],
                                        <<BufferBlock(response, 2)>>)

\* A decrypted response where the sent MAC differs from the rolling iv both
\* before and after the roll, and so does the plaintext obtained.
C18_Witness ==
    /\ SecureReturned
    /\ ivInstalled
    /\ decrypted # <<>>
    /\ sentApdu.data[1] # session.iv
    /\ sentApdu.data[1] # IvOfCommand(session.aesKey, sentApdu, CommandData(call))
    /\ decrypted # CbcDecryptBlocks(session.aesKey, session.iv, <<BufferBlock(response, 2)>>)

\* C19: the APDU of a secure command with header H and plaintext D is
\* H || Lc || M || C: C the bit-padded AES-CBC encryption of D under the
\* rolling iv, Lc = |C| + 16, M the last block of the CBC-MAC (MAC key, zero
\* iv) over the block H || Lc || 11 zero bytes followed by C, and the APDU
\* is 4 + 1 + 16 + |C| bytes long.
C19_SecureCommandLayout ==
    [][(pc = "idle" /\ call' \in SecureCalls) =>
          LET H == CommandHeader(call')
              D == CommandData(call')
              C == CbcEncryptBlocks(session.aesKey, session.iv, PadBit(D))
              clen == AES_BLOCK_SIZE * Len(C)
              Lc == clen + 16
              M == LastBlock(CbcEncryptBlocks(session.macKey, ZeroBlock,
                                              <<HeaderBlock(H, Lc)>> \o C))
          IN  /\ clen = AES_BLOCK_SIZE * ((D.len \div AES_BLOCK_SIZE) + 1)
              /\ sentApdu'.hdr = H
              /\ sentApdu'.lc = Lc
              /\ sentApdu'.data = <<M>> \o C
              /\ sentApdu'.len = 4 + 1 + 16 + clen]_vars

\* A VERIFY PIN sent on an established channel: 80 20 00 00 20 M C.
C19_Witness ==
    /\ call = "verifyPin"
    /\ ivInstalled
    /\ isSecureChannelOpen(session)
    /\ sentApdu.hdr = <<128, 32, 0, 0>>
    /\ sentApdu.lc = 32
    /\ Len(sentApdu.data) = 2
    /\ sentApdu.len = 37

\* C20: a response to a secure command on an established channel whose
\* ciphertext length |R| - 2 - 16 is negative or not a multiple of 16 is
\* rejected before any MAC computation or decryption, and the rolling iv is
\* not changed.
C20_MalformedLengthRejected ==
    [][(/\ pc = "idle"
        /\ ivInstalled
        /\ call' \in SecureCalls
        /\ response'.ok
        /\ \/ response'.len - RESPONSE_STATUS_WORDS_IN_BYTES - AES_BLOCK_SIZE < 0
           \/ (response'.len - RESPONSE_STATUS_WORDS_IN_BYTES - AES_BLOCK_SIZE)
                 % AES_BLOCK_SIZE # 0)
          => (/\ session'.iv = session.iv
              /\ pc' = "idle"
              /\ macCheck' = "none"
              /\ decrypted' = <<>>)]_vars

\* C21: a MUTUALLY AUTHENTICATE answered with exactly 66 bytes ending in
\* 90 00 makes connect return true with session.iv equal to the first 16
\* bytes of that response, and the secure command that follows this connect
\* is encrypted under that iv.
C21_MutualAuthInstallsIv ==
    [][/\ (/\ pc = "mutuallyAuthenticate"
            /\ Len(xchg') = Len(HandshakeOrder)
            /\ Succeeded(xchg'[Len(xchg')]))
              => (/\ pc' = "idle"
                  /\ ret' = "true"
                  /\ session'.iv = xchg'[Len(xchg')].data)
       /\ (ConnectReturned /\ ret = "true" /\ call' \in SecureCalls)
              => IvOfCommand(session.aesKey, sentApdu', CommandData(call'))
                   = xchg[Len(xchg)].data]_vars

C21_Witness ==
    /\ call \in SecureCalls
    /\ ret = "true"
    /\ ivInstalled
    /\ sentApdu.len = 4 + 1 + AES_BLOCK_SIZE + AES_BLOCK_SIZE

\* C22: the session keys are the two halves of the digest of the 96 bytes
\* z || pairing string || salt, in that order: the pairing string is the 32
\* characters of COMMON_PAIRING_DATA without a NUL, the salt is the first 32
\* bytes of the OPEN SECURE CHANNEL response, aesKey is the first half of the
\* digest and macKey the second.
C22_KeyDerivation ==
    [][pc = "mutuallyAuthenticate" =>
         /\ openSecureChannelSalt = xchg[Len(xchg)].data
         /\ xchg[Len(xchg)].cmd = "OPEN SECURE CHANNEL"
         /\ xchg' # xchg =>
               LET z == EccSharedSecret(cardEphemeralPubKey, clientPrivateKey)
                   pairing == 32
                   digest == Sha512(<<z, pairing, openSecureChannelSalt>>)
               IN  /\ 32 + pairing + 32 = 96
                   /\ pairing = Len(COMMON_PAIRING_DATA)
                   /\ session'.aesKey = digest[1]
                   /\ session'.macKey = digest[2]]_vars

C22_Witness ==
    /\ ConnectReturned
    /\ Len(xchg) = Len(HandshakeOrder)
    /\ session.aesKey # ZeroKey
    /\ session.aesKey # session.macKey

\* C23: the MUTUALLY AUTHENTICATE APDU is the header 80 11 00 00 and Lc, the
\* 16-byte MAC, and the ciphertext of the 32 random bytes under iv_opc; bit
\* padding makes the ciphertext 48 bytes, so Lc = 64 and the APDU is
\* 5 + 16 + 48 = 69 bytes, exactly the send buffer.
C23_MutualAuthApduLayout ==
    (call = "connect" /\ Len(xchg) = Len(HandshakeOrder)) =>
        LET C == SubSeq(sentApdu.data, 2, Len(sentApdu.data))
            R == CbcDecryptBlocks(session.aesKey, IV_OPC, C)
        IN  /\ sentApdu.hdr = <<128, 17, 0, 0>>
            /\ AES_BLOCK_SIZE * Len(C) = 48
            /\ sentApdu.lc = 64
            /\ R = PadBit(PlainData(32, SubSeq(R, 1, 2), 0))
            /\ sentApdu.data[1]
                 = LastBlock(CbcEncryptBlocks(session.macKey, ZeroBlock,
                                              <<HeaderBlock(sentApdu.hdr, 64)>> \o C))
            /\ sentApdu.len = 5 + 16 + 48
            /\ sentApdu.len = REQUEST_MUTUALLYAUTHENTICATE_IN_BYTES
            /\ sentApdu.len = 5 + AES_BLOCK_SIZE * Len(sentApdu.data)

C23_Witness ==
    /\ call = "connect"
    /\ Len(xchg) = Len(HandshakeOrder)
    /\ xchg[Len(xchg)].cmd = "MUTUALLY AUTHENTICATE"
    /\ sentApdu.lc = 64
    /\ Len(sentApdu.data) = 4

\* C24: verifyPin sends the caller's PIN as the plaintext of a secure command
\* with header 80 20 00 00 and reports success to its caller exactly when
\* the card answered 90 00.
C24_VerifyPinReportsStatus ==
    (call = "verifyPin" /\ pc = "idle") =>
        /\ sentApdu.hdr = <<128, 32, 0, 0>>
        /\ CbcDecryptBlocks(session.aesKey,
                            IvOfCommand(session.aesKey, sentApdu, PIN_1234),
                            SubSeq(sentApdu.data, 2, Len(sentApdu.data)))
             = PadBit(PIN_1234)
        /\ (Returned = "true") <=> Answered9000(xchg[1])

\* C25: a secure command whose ciphertext and MAC do not fit the one-byte
\* Lc (|C| + 16 > 255) is rejected and no APDU is sent; the Lc byte that is
\* transmitted equals |C| + 16, not its remainder modulo 256.  The MAC input
\* of a command is 16 + |C| bytes long.
C25_OversizeRejected ==
    /\ AES_BLOCK_SIZE * Len(macData) > 255 => (pc = "idle" /\ xchg = <<>>)
    /\ (xchg # <<>> /\ xchg[1].cmd = "SECURE")
          => sentApdu.lc = AES_BLOCK_SIZE * Len(macData)

\* C26: nothing written to the debug sink is the encryption key or the MAC
\* key of the session.
C26_KeysNotLogged == debugSink \cap KeyDump(session) = {}

C26_Witness ==
    /\ isSecureChannelOpen(session)
    /\ call \in SecureCalls
    /\ Dump("macValue", macValue) \in debugSink
    /\ Dump("Decoded data", decrypted) \in debugSink

\* C27: nothing written to the debug sink is a rolling iv of the session or
\* the plaintext PIN: no dumped response is one that session.iv was taken
\* from, and no dump is that of the plaintext handed to aes_cbc_encrypt.
C27_IvAndPinNotLogged ==
    \A e \in debugSink :
        /\ e.what # "data"
        /\ (/\ e.what = "APDU response"
            /\ \/ e.value.cmd = "MUTUALLY AUTHENTICATE" /\ Succeeded(e.value)
               \/ /\ e.value.cmd = "SECURE" /\ Answered9000(e.value)
                  /\ e.value.len >= AES_BLOCK_SIZE + RESPONSE_STATUS_WORDS_IN_BYTES)
              => e.value.data # session.iv

\* C28: when connect returns, on success or on failure, the buffer of the
\* host ephemeral private key is zero.  The key exists once OPEN SECURE
\* CHANNEL was sent.
C28_PrivateKeyDestroyed ==
    (ConnectReturned /\ Len(xchg) >= 3) => clientPrivateKey = ZeroKey

\* C29: on every exit path of mutual authentication and of a secure command
\* the intermediate buffers are zero: the shared secret when connect returns
\* from mutuallyAuthenticate, the MAC input when a secure command returns.
C29_IntermediateBuffersZeroized ==
    /\ (ConnectReturned /\ sharedSecret # Unset) => sharedSecret = ZeroKey
    /\ (pc = "idle" /\ call \in SecureCalls)
          => \A i \in 1 .. Len(macData) : macData[i] = ZeroBlock

\* C30: no retry.  Within one connect each handshake APDU is handed to the
\* transport at most once, and a verifyPin or getCardInfo call hands exactly
\* one APDU to the transport.
C30_NoRetry ==
    /\ call = "connect"
          => \A i, j \in 1 .. Len(xchg) : xchg[i].cmd = xchg[j].cmd => i = j
    /\ call \in SecureCalls => (Len(xchg) = 1 /\ xchg[1].cmd = "SECURE")

C30_Witness ==
    /\ ConnectReturned
    /\ ret = "false"
    /\ Len(xchg) = 1
    /\ ~xchg[1].ok

\* C31: the signature of the certificate is not verified.  The step that
\* reads the certificate ends as it would for the same certificate with any
\* other signature bytes: same key extracted, same verdict, and it sends
\* nothing and leaves the session alone.
C31_SignatureNotVerified ==
    [][pc = "extractCardEphemeralKey" =>
          \A s \in Signatures :
              LET other == [cardCertificate EXCEPT !.sig = s]
              IN  /\ StepReturns(ExtractReturns(other), "openSecureChannel")
                  /\ cardEphemeralPubKey' = other.pub
                  /\ UNCHANGED <<session, xchg, sentApdu>>]_vars

\* C31 witness: a handshake is past the extraction, about to send MUTUALLY
\* AUTHENTICATE, with a well-formed certificate that does not carry the
\* signature of the card.
C31_Witness ==
    /\ call = "connect"
    /\ pc = "mutuallyAuthenticate"
    /\ cardCertificate.sig = 0
    /\ cardCertificate.fmt = 67 /\ cardCertificate.marker = 4
    /\ cardEphemeralPubKey = cardCertificate.pub

\* C32: the generator is seeded lazily and exactly once.  randomSeed has
\* been called at most once, it has been called exactly when uECC_RNG has
\* produced bytes, no byte was drawn before it, and the static flag says so;
\* a call with a null destination or with size 0 returns 0, makes no call to
\* the generator and leaves the flag as it is.
C32_SeededOnce ==
    /\ rng.seedings <= 1
    /\ rng.seeded <=> rng.seedings = 1
    /\ rng.produced <=> rng.seeded
    /\ ~rng.unseededBytes
    /\ \A destGiven \in BOOLEAN : \A size \in {0, RANDOM_BYTES, 32} :
          LET out == uECC_RNG(rng, destGiven, size)
          IN  IF destGiven /\ size > 0
              THEN /\ out.ret = 1 /\ out.bytes = size
                   /\ out.rng.seeded /\ out.rng.seedings = 1
                   /\ ~out.rng.unseededBytes
              ELSE /\ out.ret = 0 /\ out.bytes = 0
                   /\ out.rng = rng
                   /\ uECC_RNG_Calls(rng, destGiven, size) = <<>>

\* C32 witness: connect returned true, so uECC_RNG ran for the nonce, for
\* the key pair and for the challenge, and randomSeed was called once.
C32_Witness ==
    /\ ConnectReturned /\ ret = "true"
    /\ Len(xchg) = 4
    /\ rng.seeded /\ rng.seedings = 1 /\ rng.produced

\* C33: for every plaintext of 0 to 128 bytes the bit-padded ciphertext is a
\* multiple of 16, longer than the plaintext and at most 144 bytes, the MAC
\* input and the ciphertext fit the buffers of 2 * INPUT_BUFFER_LIMIT bytes
\* and the APDU has at most 165 bytes; the secure command that was sent has
\* the length computed that way.
C33_CommandFitsBuffers ==
    /\ \A n \in 0 .. INPUT_BUFFER_LIMIT - 1 :
          LET c == PaddedLength(n)
          IN  /\ c % AES_BLOCK_SIZE = 0
              /\ c > n
              /\ c <= 144
              /\ c <= 2 * INPUT_BUFFER_LIMIT
              /\ AES_BLOCK_SIZE + c <= 2 * INPUT_BUFFER_LIMIT
              /\ 4 + 1 + AES_BLOCK_SIZE + c <= 165
    /\ (call \in SecureCalls /\ sentApdu # NoApdu
            /\ CommandData(call).len <= INPUT_BUFFER_LIMIT - 1)
         => /\ sentApdu.len = 4 + 1 + AES_BLOCK_SIZE + PaddedLength(CommandData(call).len)
            /\ sentApdu.len <= 165
            /\ AES_BLOCK_SIZE * Len(macData) <= 2 * INPUT_BUFFER_LIMIT
            /\ AES_BLOCK_SIZE * (Len(sentApdu.data) - 1)
                  = PaddedLength(CommandData(call).len)

\* C33 witness: verifyPin sent its command, 37 bytes for a PIN of 4.
C33_Witness ==
    /\ call = "verifyPin"
    /\ sentApdu # NoApdu
    /\ sentApdu.len = 37
    /\ Len(sentApdu.data) = 2

C35_ExtractsKey ==
    extractCall.ret # "none" =>
        IF extractCall.certGiven /\ extractCall.outGiven
        THEN /\ extractCall.ret = "true"
             /\ extractCall.out = extractCall.cert.pub
             /\ extractCall.full =
                    IF extractCall.fullGiven
                    THEN [marker |-> extractCall.cert.marker, pub |-> extractCall.cert.pub]
                    ELSE NoExtractCall.full
        ELSE /\ extractCall.ret = "false"
             /\ extractCall.out = Unset
             /\ extractCall.full = NoExtractCall.full

\* C36: when connect has returned true, isSecureChannelOpen is true of the
\* session it filled, and the four handshake APDUs were each delivered and
\* answered with 90 00, OPEN SECURE CHANNEL on 34 bytes and MUTUALLY
\* AUTHENTICATE on 66.
C36_TrueMeansOpen ==
    (ConnectReturned /\ ret = "true") =>
        /\ isSecureChannelOpen(session)
        /\ cardDetected = "true"
        /\ [i \in 1 .. Len(xchg) |-> xchg[i].cmd] = HandshakeOrder
        /\ \A i \in 1 .. Len(xchg) : Answered9000(xchg[i])
        /\ xchg[3].len = RESPONSE_OPENSECURECHANNEL_IN_BYTES
        /\ xchg[4].len = RESPONSE_MUTUALLYAUTHENTICATE_IN_BYTES

\* C36 witness: connect returned true and left keys in the session.
C36_Witness ==
    /\ ConnectReturned /\ ret = "true"
    /\ isSecureChannelOpen(session)
    /\ session.macKey # ZeroKey
    /\ xchg[4].len = RESPONSE_MUTUALLYAUTHENTICATE_IN_BYTES

\* C37: no step of a secure command writes aesKey or macKey; the iv is
\* written only by the step that made the exchange, and only when the
\* exchange was delivered and answered 90 00; when the exchange failed or
\* the status word is another one the session is as it was before the call.
C37_SecureCommandFrame ==
    [][((pc = "idle" /\ call' \in SecureCalls) \/ (pc # "idle" /\ call \in SecureCalls))
          => /\ session'.aesKey = session.aesKey
             /\ session'.macKey = session.macKey
             /\ session'.iv # session.iv
                   => (pc = "idle" /\ Answered9000(xchg'[1])
                       /\ session'.iv = BufferBlock(response', 1))
             /\ (pc = "idle" /\ ~Answered9000(xchg'[1])) => session' = session
             /\ pc # "idle" => session' = session]_vars

\* C37 witness: a secure command on an established channel whose exchange
\* the transport failed, returned with keys and iv still in the session.
C37_Witness ==
    /\ SecureReturned
    /\ ivInstalled
    /\ ~xchg[1].ok
    /\ session.aesKey # ZeroKey /\ session.macKey # ZeroKey
    /\ session.iv # ZeroBlock

C39_ConnectTerminatesReusable ==
    /\ [](ConnectReturned =>
            /\ (cardDetected = "true" /\ Len(xchg) = 4
                    /\ \A i \in 1 .. 4 : Succeeded(xchg[i]))
                 => (/\ ret = "true"
                     /\ ivInstalled
                     /\ session.aesKey # ZeroKey /\ session.macKey # ZeroKey
                     /\ session.iv = xchg[4].data)
            /\ (cardDetected = "true" /\ ret = "false")
                 => (/\ xchg # <<>>
                     /\ \/ ~Succeeded(xchg[Len(xchg)])
                        \/ Len(xchg) \in {2, 3}))
    /\ []((call = "connect" /\ pc # "idle") => ENABLED establishSecureChannel)
    /\ [][(call = "connect" /\ pc # "idle")
            => (call' = "connect" /\ StepsLeft(pc') < StepsLeft(pc))]_vars

\* C39 witness: connect returned true, with keys and the iv of this
\* handshake, in an iteration that follows one ended by disconnect.
C39_Witness ==
    /\ ConnectReturned /\ ret = "true"
    /\ previousIteration = "disconnect"
    /\ session.aesKey # ZeroKey /\ session.macKey # ZeroKey
    /\ session.iv = xchg[4].data

\* C40: for every response length from 2 to 255 bytes that arrives with
\* status 90 00, the recomputation of the response MAC stays within its
\* buffers: the response_len - 2 bytes it MACs are at most the 32 bytes of
\* mac_datar, and macOffset, macEncryptedLength - 16 in 8 bits, is that
\* difference, which is not negative.
C40_ResponseMacWithinBuffers ==
    pc = "aes_cbc_decrypt"
        => /\ response.len \in 2 .. 255
           /\ response.sw = SW_9000
           /\ CipherTextLen(response) <= 32
           /\ \A past \in PastReads(response) :
                 /\ MacEncryptedLength(session.macKey, response, past) >= AES_BLOCK_SIZE
                 /\ MacOffset(session.macKey, response, past)
                      = MacEncryptedLength(session.macKey, response, past) - AES_BLOCK_SIZE

====
